---- MODULE Spec2Model ----
(***************************************************************************)
(* Native event delegation of tinymce.EditorObservable                     *)
(* (modules/tinymce/src/core/main/ts/api/EditorObservable.ts).             *)
(*                                                                         *)
(* Editors live in one page.  An iframe editor owns a document, a document *)
(* element and a body; an inline editor's body is an element of the host   *)
(* page, placed under the host document element or under one of the        *)
(* elements that an event_root selector names.  Native listeners are kept  *)
(* in bind order; a native event bubbles from its target through the       *)
(* target's ancestors and runs the listeners bound for its name.           *)
(***************************************************************************)
EXTENDS Integers, Sequences, FiniteSets, TLC

\* ------------------------------------------------------------------ bounds

\* At most MaxPending names are queued on the editors before they are
\* initialised (the code never shortens _pendingNativeEvents).
MaxPending ==
  2

Editors ==
  {1, 2}

\* Elements that an event_root selector can resolve to; 0 stands for "no
\* event_root configured".
Roots ==
  {1, 2}

NoRoot ==
  0

\* ------------------------------------------------------------ event names

\* Names that toggleNativeEvent never binds (FocusManager fakes them).
FocusNames ==
  {"focus", "blur"}

\* The names the dispatcher toggles in this model.
NativeNames ==
  {"selectionchange", "keydown"}

\* The names getEventTarget is resolved for.
TargetNames ==
  {"selectionchange", "keydown", "click", "dblclick", "mousedown",
   "touchstart", "contextmenu", "drop", "dragover", "dragend", "dragstart",
   "pointerdown"}

\* The characters of an event name.
Chars(eventName) ==
  CASE eventName = "selectionchange" ->
         <<"s","e","l","e","c","t","i","o","n","c","h","a","n","g","e">>
    [] eventName = "keydown" -> <<"k","e","y","d","o","w","n">>
    [] eventName = "click" -> <<"c","l","i","c","k">>
    [] eventName = "dblclick" -> <<"d","b","l","c","l","i","c","k">>
    [] eventName = "mousedown" -> <<"m","o","u","s","e","d","o","w","n">>
    [] eventName = "touchstart" -> <<"t","o","u","c","h","s","t","a","r","t">>
    [] eventName = "contextmenu" ->
         <<"c","o","n","t","e","x","t","m","e","n","u">>
    [] eventName = "drop" -> <<"d","r","o","p">>
    [] eventName = "dragover" -> <<"d","r","a","g","o","v","e","r">>
    [] eventName = "dragend" -> <<"d","r","a","g","e","n","d">>
    [] eventName = "dragstart" -> <<"d","r","a","g","s","t","a","r","t">>
    [] eventName = "pointerdown" ->
         <<"p","o","i","n","t","e","r","d","o","w","n">>
    [] eventName = "focus" -> <<"f","o","c","u","s">>
    [] eventName = "blur" -> <<"b","l","u","r">>

\* Does pat occur in str at position i?
MatchesAt(str, pat, i) ==
  /\ i + Len(pat) - 1 <= Len(str)
  /\ \A j \in 1..Len(pat) : str[i + j - 1] = pat[j]

Contains(str, pat) ==
  \E i \in 1..Len(str) : MatchesAt(str, pat, i)

\* /^mouse|touch|click|contextmenu|drop|dragover|dragend/.test(eventName):
\* the anchor belongs to the first alternative only.
DocElemPattern(str) ==
  \/ MatchesAt(str, <<"m","o","u","s","e">>, 1)
  \/ Contains(str, <<"t","o","u","c","h">>)
  \/ Contains(str, Chars("click"))
  \/ Contains(str, Chars("contextmenu"))
  \/ Contains(str, Chars("drop"))
  \/ Contains(str, Chars("dragover"))
  \/ Contains(str, Chars("dragend"))

DocElemPatternTable ==
  [n \in TargetNames \cup FocusNames |-> DocElemPattern(Chars(n))]

MatchesDocElemPattern(eventName) ==
  DocElemPatternTable[eventName]

ToggleNames ==
  NativeNames \cup FocusNames

\* ------------------------------------------------------------------ nodes

NoNode ==
  <<"none", 0>>

HostDoc ==
  <<"hostdoc", 0>>

HostDocElem ==
  <<"hostelem", 0>>

RootElm(r) ==
  <<"root", r>>

IframeDoc(e) ==
  <<"doc", e>>

IframeDocElem(e) ==
  <<"docelem", e>>

BodyOf(e) ==
  <<"body", e>>

InnerOf(e) ==
  <<"inner", e>>

VARIABLES
  inline,            \* editor.inline (setting, fixed at construction)
  eventRootSetting,  \* Settings.getEventRoot(editor): NoRoot or a root
  container,         \* where an inline editor's body sits in the host page
  hidden,            \* editor.hidden
  readonly,          \* isReadOnly(editor)
  initialized,       \* editor.initialized
  removed,           \* editor.removed
  eventRoot,         \* editor.eventRoot, the cached resolved element
  delegates,         \* editor.delegates: absent or the set of bound names
  pending,           \* editor._pendingNativeEvents: absent or a sequence
  customEventRootDelegates, \* module-level registry: absent or its keys
  removeEditorHandlers,     \* the editors that 'removeEditor' handlers
                            \* capture, in registration order
  editors,           \* editorManager.get(), in registration order
  activeEditor,      \* editorManager.activeEditor (0 when null)
  listeners,         \* native listeners in bind order
  wanted,            \* history: the names bindEventDelegate was called with
                     \* for a live editor and that the editor has not
                     \* unbound since
  outcome,           \* what the last operation did: idle, threw, dispatch
  picker,            \* the image picker of editor 1: its last change event,
                     \* the conversions under way, the calls made so far
  scan,              \* the shared delegate that is running: the editors it
                     \* iterates, how far it is, whom it visited
  toggled            \* the event dispatcher of each editor: the names that
                     \* have a listener (toggled on and not off since)

vars ==
  <<inline, eventRootSetting, container, hidden, readonly, initialized,
    removed, eventRoot, delegates, pending, customEventRootDelegates,
    removeEditorHandlers, editors, activeEditor, listeners, wanted,
    outcome, picker, scan, toggled>>

config ==
  <<inline, eventRootSetting, container, hidden, readonly>>

\* A field that JavaScript leaves undefined until first use: exists = FALSE
\* is undefined / null / deleted.
AbsentSet ==
  [exists |-> FALSE, names |-> {}]

AbsentList ==
  [exists |-> FALSE, list |-> <<>>]

AbsentMap ==
  [exists |-> FALSE, map |-> {}]

Idle ==
  [kind |-> "idle"]

Threw ==
  [kind |-> "threw"]

\* toggleNativeEvent returned at its focus / blur test.
Ignored ==
  [kind |-> "ignored"]

\* ----------------------------------------------------------- ImagePicker

\* The files (blobs) a change event can carry.
Files ==
  {1, 2, 3}

\* The longest file list of an event.
MaxFiles ==
  2

\* How many change events the picker receives.
MaxPicks ==
  3

\* sketch(editor): the editor the picker was built for.
PickerEditor ==
  1

RECURSIVE ListsUpTo(_)
\* The file lists of at most n files.
ListsUpTo(n) ==
  IF n = 0 THEN {<<>>}
  ELSE LET shorter == ListsUpTo(n - 1)
       IN shorter \cup {Append(l, f) : l \in shorter, f \in Files}

\* event.raw().target.files or event.raw().dataTransfer.files: undefined, or
\* a list of files.
FileLists(n) ==
  {AbsentList} \cup {[exists |-> TRUE, list |-> l] : l \in ListsUpTo(n)}

\* event.raw().dataTransfer: undefined, or a payload with its files.
NoDataTransfer ==
  [exists |-> FALSE, files |-> AbsentList]

DataTransfers(n) ==
  {NoDataTransfer} \cup {[exists |-> TRUE, files |-> l] : l \in FileLists(n)}

\* Every shape of event.raw() that extractBlob can be handed.
RawEvents ==
  [files : FileLists(MaxFiles), dataTransfer : DataTransfers(MaxFiles)]

\* The change events of the file input: the input has no multiple
\* attribute, so target.files is a list of no file or one, and a change
\* event has no drag payload.
ChangeEvents ==
  [files : FileLists(1) \ {AbsentList}, dataTransfer : {NoDataTransfer}]

NoEvent ==
  [files |-> AbsentList, dataTransfer |-> NoDataTransfer]

\* What a call of extractBlob did.
NotExtracted ==
  [kind |-> "idle", blob |-> 0]

PickerInit ==
  [event |-> NoEvent, extracted |-> NotExtracted, picks |-> 0,
   converting |-> {}, completed |-> {}, failed |-> {}, raised |-> {},
   log |-> <<>>]

\* --------------------------------------------------------------- DOM tree

getDoc(e) ==
  IF inline[e] THEN HostDoc ELSE IframeDoc(e)

getBody(e) ==
  BodyOf(e)

ParentNode(n) ==
  CASE n[1] = "inner" -> BodyOf(n[2])
    [] n[1] = "body" ->
         IF inline[n[2]]
           THEN (IF container[n[2]] = NoRoot THEN HostDocElem
                 ELSE RootElm(container[n[2]]))
           ELSE IframeDocElem(n[2])
    [] n[1] = "docelem" -> IframeDoc(n[2])
    [] n[1] = "root" -> HostDocElem
    [] n[1] = "hostelem" -> HostDoc
    [] OTHER -> NoNode

RECURSIVE isChildOf(_, _)
\* DOMUtils.isChildOf(node, parent): node is parent or a descendant of it.
isChildOf(node, parent) ==
  IF node = NoNode THEN FALSE
  ELSE IF node = parent THEN TRUE
  ELSE isChildOf(ParentNode(node), parent)

RECURSIVE BubblePath(_)
\* The nodes a bubbling native event visits, target first.
BubblePath(n) ==
  IF n = NoNode THEN <<>> ELSE <<n>> \o BubblePath(ParentNode(n))

\* ------------------------------------------------------- getEventTarget

\* Does getEventTarget(e, eventName) reach the event_root branch?
UsesEventRoot(e, eventName) ==
  /\ eventName # "selectionchange"
  /\ ~(~inline[e] /\ MatchesDocElemPattern(eventName))
  /\ eventRootSetting[e] # NoRoot

\* editor.eventRoot after getEventTarget(e, eventName), when it was cache
\* before: DOM.select(eventRoot)[0] is stored on first use.
eventRootAfter(cache, e, eventName) ==
  IF UsesEventRoot(e, eventName) /\ cache = NoNode
    THEN RootElm(eventRootSetting[e])
    ELSE cache

\* getEventTarget with the event_root test before the document element test.
getEventTargetRootFirst(cache, e, eventName) ==
  IF eventName = "selectionchange" THEN getDoc(e)
  ELSE IF eventRootSetting[e] # NoRoot
    THEN (IF cache = NoNode THEN RootElm(eventRootSetting[e]) ELSE cache)
  ELSE IF ~inline[e] /\ MatchesDocElemPattern(eventName)
    THEN IframeDocElem(e)
  ELSE getBody(e)

\* The node getEventTarget returns when editor.eventRoot is cache.
getEventTarget(cache, e, eventName) ==
  IF eventName = "selectionchange" THEN getDoc(e)
  ELSE IF ~inline[e] /\ MatchesDocElemPattern(eventName)
    THEN IframeDocElem(e)
  ELSE IF eventRootSetting[e] # NoRoot
    THEN eventRootAfter(cache, e, eventName)
  ELSE getBody(e)

\* ------------------------------------------------------------- fireEvent

isListening(e) ==
  ~hidden[e] /\ ~readonly[e]

\* fireEvent with isListening reduced to the read-only test.
fireEventIgnoringHidden(e) ==
  IF ~readonly[e] THEN <<[ed |-> e, call |-> "fire"]>>
  ELSE <<[ed |-> e, call |-> "prevent"]>>

\* The calls fireEvent makes: editor.fire, preventReadOnlyEvents or none.
fireEvent(e) ==
  IF isListening(e) THEN <<[ed |-> e, call |-> "fire"]>>
  ELSE IF readonly[e] THEN <<[ed |-> e, call |-> "prevent"]>>
  ELSE <<>>

\* ------------------------------------------------------ native listeners

\* DOM.bind(target, name, func): EventUtils appends the callback.
DomBind(L, node, name, kind, e) ==
  Append(L, [node |-> node, name |-> name, kind |-> kind, ed |-> e])

\* dom.unbind(target, name, func) with a function: that callback goes.
DomUnbindFunc(L, node, name, kind, e) ==
  SelectSeq(L, LAMBDA l : ~(l.node = node /\ l.name = name
                             /\ l.kind = kind /\ l.ed = e))

\* dom.unbind(target, name, undefined): every callback of that name goes.
DomUnbindName(L, node, name) ==
  SelectSeq(L, LAMBDA l : ~(l.node = node /\ l.name = name))

\* dom.unbind(target): every callback on the target goes.
DomUnbindNode(L, node) ==
  SelectSeq(L, LAMBDA l : l.node # node)

\* No shared delegate is running.
NoScan ==
  [phase |-> "none", target |-> NoNode, name |-> "", list |-> <<>>,
   k |-> 0, visited |-> <<>>, fired |-> <<>>, removedDuring |-> {}]

\* ------------------------------------------------------ bindEventDelegate

\* The part of the state that bindEventDelegate reads and writes.
BindState ==
  [delegates |-> delegates, eventRoot |-> eventRoot,
   registry |-> customEventRootDelegates, handlers |-> removeEditorHandlers,
   listeners |-> listeners, wanted |-> wanted]

\* The keys of customEventRootDelegates.  Every shared delegate runs the
\* same code for its name, so the model keeps the keys only.
RegistryNames(reg) ==
  reg.map

\* The editor of a listener that is not private to an editor.
Shared ==
  0

\* bindEventDelegate without the test of editor.removed.
bindEventDelegateOnRemoved(S, e, eventName) ==
  LET d1 == IF S.delegates[e].exists THEN S.delegates[e]
            ELSE [exists |-> TRUE, names |-> {}]
      S1 == [S EXCEPT !.delegates[e] = d1]
  IN
  IF eventName \in d1.names THEN S1
  ELSE
    LET eventRootElm == getEventTarget(S.eventRoot[e], e, eventName)
        S2 == [S1 EXCEPT !.eventRoot[e] =
                           eventRootAfter(S.eventRoot[e], e, eventName)]
    IN
    IF eventRootSetting[e] # NoRoot THEN
      LET S3 == IF S2.registry.exists THEN S2
                ELSE [S2 EXCEPT !.registry = [exists |-> TRUE, map |-> {}],
                                !.handlers = Append(@, e)]
      IN
      IF eventName \in RegistryNames(S3.registry) THEN S3
      ELSE [S3 EXCEPT
              !.registry.map = @ \cup {eventName},
              !.listeners =
                 DomBind(@, eventRootElm, eventName, "shared", Shared)]
    ELSE
      [S2 EXCEPT
         !.listeners = DomBind(@, eventRootElm, eventName, "private", e),
         !.delegates[e].names = @ \cup {eventName}]

bindEventDelegate(S, e, eventName) ==
  LET d1 == IF S.delegates[e].exists THEN S.delegates[e]
            ELSE [exists |-> TRUE, names |-> {}]
      S1 == [S EXCEPT !.delegates[e] = d1]
  IN
  IF removed[e] THEN S1
  ELSE IF eventName \in d1.names
    THEN [S1 EXCEPT !.wanted[e] = @ \cup {eventName}]
  ELSE
    LET eventRootElm == getEventTarget(S.eventRoot[e], e, eventName)
        S2 == [S1 EXCEPT !.eventRoot[e] =
                           eventRootAfter(S.eventRoot[e], e, eventName),
                         !.wanted[e] = @ \cup {eventName}]
    IN
    IF eventRootSetting[e] # NoRoot THEN
      LET S3 == IF S2.registry.exists THEN S2
                ELSE [S2 EXCEPT !.registry = [exists |-> TRUE, map |-> {}],
                                !.handlers = Append(@, e)]
      IN
      IF eventName \in RegistryNames(S3.registry) THEN S3
      ELSE [S3 EXCEPT
              !.registry.map = @ \cup {eventName},
              !.listeners =
                 DomBind(@, eventRootElm, eventName, "shared", Shared)]
    ELSE
      [S2 EXCEPT
         !.listeners = DomBind(@, eventRootElm, eventName, "private", e),
         !.delegates[e].names = @ \cup {eventName}]

\* ------------------------------------------------------ the delegates

\* The calls one listener makes for an event whose target is target.  A
\* private delegate fires its own editor; the shared delegate scans
\* editorManager.get() from the last editor to the first.
RECURSIVE sharedDelegateNoTargetTest(_, _)
\* The shared delegate without its test of the event target.
sharedDelegateNoTargetTest(i, target) ==
  IF i = 0 THEN <<>>
  ELSE fireEvent(editors[i]) \o sharedDelegateNoTargetTest(i - 1, target)

RECURSIVE sharedDelegate(_, _)
sharedDelegate(i, target) ==
  IF i = 0 THEN <<>>
  ELSE (IF isChildOf(target, getBody(editors[i])) THEN fireEvent(editors[i])
        ELSE <<>>) \o sharedDelegate(i - 1, target)

delegate(l, target) ==
  IF l.kind = "shared" THEN sharedDelegate(Len(editors), target)
  ELSE fireEvent(l.ed)

RECURSIVE Flatten(_)
Flatten(ss) ==
  IF ss = <<>> THEN <<>> ELSE Head(ss) \o Flatten(Tail(ss))

\* The listeners a bubbling event of that name runs, in the order they run.
ListenersRun(target, name) ==
  LET path == BubblePath(target)
  IN Flatten([i \in 1..Len(path) |->
       SelectSeq(listeners, LAMBDA l : l.node = path[i] /\ l.name = name)])

\* Every editor.fire / preventReadOnlyEvents call that one native event makes.
Dispatch(target, name) ==
  LET run == ListenersRun(target, name)
  IN Flatten([i \in 1..Len(run) |-> delegate(run[i], target)])

\* ------------------------------------------------- unbindAllNativeEvents

RECURSIVE UnbindDelegates(_, _, _)
\* Obj.each(self.delegates, ...): unbind each private delegate of e.
UnbindDelegates(L, e, names) ==
  IF names = {} THEN L
  ELSE LET name == CHOOSE n \in names : TRUE
       IN UnbindDelegates(
            DomUnbindFunc(L, getEventTarget(eventRoot[e], e, name), name,
                          "private", e),
            e, names \ {name})

\* unbindAllNativeEvents unbinding the document of an inline editor too.
unbindAllNativeEventsInlineDoc(L, e) ==
  LET L1 == IF delegates[e].exists
              THEN UnbindDelegates(L, e, delegates[e].names) ELSE L
  IN DomUnbindNode(DomUnbindNode(L1, getDoc(e)), getBody(e))

unbindAllNativeEvents(L, e) ==
  LET L1 == IF delegates[e].exists
              THEN UnbindDelegates(L, e, delegates[e].names) ELSE L
      L2 == IF ~inline[e] THEN DomUnbindNode(L1, getDoc(e)) ELSE L1
  IN DomUnbindNode(L2, getBody(e))

\* ------------------------------------------------------------------ Init

\* Kinds of editor: the settings and the place of the body in the page.
IframeEditor ==
  [inline |-> FALSE, root |-> NoRoot, container |-> NoRoot]

InlineEditor ==
  [inline |-> TRUE, root |-> NoRoot, container |-> NoRoot]

InlineInRoot(r) ==
  [inline |-> TRUE, root |-> r, container |-> r]

IframeWithRoot(r) ==
  [inline |-> FALSE, root |-> r, container |-> NoRoot]

InlineUnderForeignRoot(r) ==
  [inline |-> TRUE, root |-> NoRoot, container |-> r]

\* The pages the model is run on: which kind editor 1 and editor 2 are.
Scenarios ==
  { <<IframeEditor, InlineEditor>>,
    <<InlineInRoot(1), InlineInRoot(1)>>,
    <<InlineInRoot(1), InlineInRoot(2)>>,
    <<InlineInRoot(1), InlineUnderForeignRoot(1)>>,
    <<IframeWithRoot(1), IframeWithRoot(1)>> }

Listening ==
  [hidden |-> FALSE, readonly |-> FALSE]

\* hidden / read-only states of editor 1 and editor 2.
Modes ==
  { <<[hidden |-> TRUE, readonly |-> FALSE],
      [hidden |-> FALSE, readonly |-> TRUE]>>,
    <<[hidden |-> TRUE, readonly |-> TRUE], Listening>>,
    <<Listening, [hidden |-> TRUE, readonly |-> TRUE]>>,
    <<[hidden |-> FALSE, readonly |-> TRUE],
      [hidden |-> TRUE, readonly |-> FALSE]>> }

InitWith(scenarios, modes) ==
  /\ \E s \in scenarios :
       /\ inline = [e \in Editors |-> s[e].inline]
       /\ eventRootSetting = [e \in Editors |-> s[e].root]
       /\ container = [e \in Editors |-> s[e].container]
  /\ \E m \in modes :
       /\ hidden = [e \in Editors |-> m[e].hidden]
       /\ readonly = [e \in Editors |-> m[e].readonly]
  /\ initialized = [e \in Editors |-> FALSE]
  /\ removed = [e \in Editors |-> FALSE]
  /\ eventRoot = [e \in Editors |-> NoNode]
  /\ delegates = [e \in Editors |-> AbsentSet]
  /\ pending = [e \in Editors |-> AbsentList]
  /\ customEventRootDelegates = AbsentMap
  /\ removeEditorHandlers = <<>>
  /\ editors = <<1, 2>>
  /\ activeEditor = 2
  /\ listeners = <<>>
  /\ wanted = [e \in Editors |-> {}]
  /\ outcome = Idle
  /\ picker = PickerInit
  /\ scan = NoScan
  /\ toggled = [e \in Editors |-> {}]

Init ==
  InitWith(Scenarios, {<<Listening, Listening>>})

\* Two pages, with hidden and read-only editors.
InitGating ==
  InitWith({<<IframeEditor, InlineEditor>>,
            <<InlineInRoot(1), InlineInRoot(1)>>}, Modes)

\* --------------------------------------------------------------- actions

SetBindState(S) ==
  /\ delegates' = S.delegates
  /\ eventRoot' = S.eventRoot
  /\ customEventRootDelegates' = S.registry
  /\ removeEditorHandlers' = S.handlers
  /\ listeners' = S.listeners
  /\ wanted' = S.wanted

RECURSIVE BindEach(_, _, _)
\* Tools.each(self._pendingNativeEvents, name => bindEventDelegate(self, name))
BindEach(S, e, names) ==
  IF names = <<>> THEN S
  ELSE BindEach(bindEventDelegate(S, e, Head(names)), e, Tail(names))

bindPendingEventDelegates(e) ==
  /\ SetBindState(BindEach(BindState, e, pending[e].list))
  /\ outcome' = Idle
  /\ UNCHANGED <<config, initialized, removed, pending, editors, activeEditor>>

RECURSIVE SumLen(_)
SumLen(S) ==
  IF S = {} THEN 0
  ELSE LET e == CHOOSE x \in S : TRUE
       IN Len(pending[e].list) + SumLen(S \ {e})

PendingTotal ==
  SumLen(Editors)

\* toggleNativeEvent(name, true) without the focus / blur test.
ToggleOnBindsFocus(e, name) ==
  IF initialized[e] THEN
    /\ SetBindState(bindEventDelegate(BindState, e, name))
    /\ outcome' = Idle
    /\ UNCHANGED <<config, initialized, removed, pending, editors,
                   activeEditor>>
  ELSE
    /\ PendingTotal < MaxPending
    /\ pending' = [pending EXCEPT ![e] =
                     [exists |-> TRUE, list |-> Append(@.list, name)]]
    /\ outcome' = Idle
    /\ UNCHANGED <<config, initialized, removed, eventRoot, delegates,
                   customEventRootDelegates, removeEditorHandlers, editors,
                   activeEditor, listeners, wanted>>

\* toggleNativeEvent(name, true)
ToggleOn(e, name) ==
  IF name \in FocusNames THEN
    /\ outcome' = Ignored
    /\ UNCHANGED <<config, initialized, removed, eventRoot, delegates, pending,
                   customEventRootDelegates, removeEditorHandlers, editors,
                   activeEditor, listeners, wanted>>
  ELSE IF initialized[e] THEN
    /\ SetBindState(bindEventDelegate(BindState, e, name))
    /\ outcome' = Idle
    /\ UNCHANGED <<config, initialized, removed, pending, editors,
                   activeEditor>>
  ELSE
    /\ PendingTotal < MaxPending
    /\ pending' = [pending EXCEPT ![e] =
                     [exists |-> TRUE, list |-> Append(@.list, name)]]
    /\ outcome' = Idle
    /\ UNCHANGED <<config, initialized, removed, eventRoot, delegates,
                   customEventRootDelegates, removeEditorHandlers, editors,
                   activeEditor, listeners, wanted>>

\* toggleNativeEvent(name, false)
ToggleOff(e, name) ==
  IF name \in FocusNames \/ ~initialized[e] THEN
    /\ outcome' = IF name \in FocusNames THEN Ignored ELSE Idle
    /\ UNCHANGED <<config, initialized, removed, eventRoot, delegates, pending,
                   customEventRootDelegates, removeEditorHandlers, editors,
                   activeEditor, listeners, wanted>>
  ELSE
    \* the arguments of dom.unbind are evaluated first: getEventTarget, then
    \* self.delegates[name], which throws when self.delegates is undefined
    /\ eventRoot' = [eventRoot EXCEPT ![e] = eventRootAfter(@, e, name)]
    /\ IF ~delegates[e].exists THEN
         /\ outcome' = Threw
         /\ UNCHANGED <<delegates, listeners, wanted>>
       ELSE
         /\ outcome' = Idle
         /\ listeners' =
              IF name \in delegates[e].names
                THEN DomUnbindFunc(listeners,
                       getEventTarget(eventRoot[e], e, name), name,
                       "private", e)
                ELSE DomUnbindName(listeners,
                       getEventTarget(eventRoot[e], e, name), name)
         /\ delegates' = [delegates EXCEPT ![e].names = @ \ {name}]
         /\ wanted' = [wanted EXCEPT ![e] = @ \ {name}]
    /\ UNCHANGED <<config, initialized, removed, pending,
                   customEventRootDelegates, removeEditorHandlers, editors,
                   activeEditor>>

toggleNativeEvent(e, name, state) ==
  IF state THEN ToggleOn(e, name) ELSE ToggleOff(e, name)

UnbindAll(e) ==
  /\ listeners' = unbindAllNativeEvents(listeners, e)
  /\ delegates' = [delegates EXCEPT ![e] = AbsentSet]
  /\ wanted' = [wanted EXCEPT ![e] = {}]
  /\ eventRoot' = eventRoot
  /\ outcome' = Idle
  /\ UNCHANGED <<config, initialized, removed, pending,
                 customEventRootDelegates, removeEditorHandlers, editors,
                 activeEditor>>

\* The editor finishes initialising: the pending names are bound once the
\* body exists, then editor.initialized is set.
InitContentBody(e) ==
  /\ ~initialized[e]
  /\ ~removed[e]
  /\ SetBindState(BindEach(BindState, e, pending[e].list))
  /\ initialized' = [initialized EXCEPT ![e] = TRUE]
  /\ outcome' = Idle
  /\ UNCHANGED <<config, removed, pending, editors, activeEditor>>

RECURSIVE UnbindRegistryTargets(_, _, _, _)
\* Obj.each(customEventRootDelegates, (_value, name) =>
\*   editor.dom.unbind(getEventTarget(editor, name)))
UnbindRegistryTargets(L, cache, c, names) ==
  IF names = {} THEN [listeners |-> L, cache |-> cache]
  ELSE LET name == CHOOSE n \in names : TRUE
       IN UnbindRegistryTargets(
            DomUnbindNode(L, getEventTarget(cache, c, name)),
            eventRootAfter(cache, c, name), c, names \ {name})

\* editor.remove(): the editor is flagged removed, its native events are
\* unbound, it leaves editorManager's list, and 'removeEditor' is fired.
Remove(e) ==
  LET list == SelectSeq(editors, LAMBDA x : x # e)
      active == IF activeEditor = e
                  THEN (IF Len(list) > 0 THEN list[1] ELSE 0)
                  ELSE activeEditor
      L1 == unbindAllNativeEvents(listeners, e)
      teardown == /\ removeEditorHandlers # <<>>
                  /\ active = 0
                  /\ customEventRootDelegates.exists
      c == removeEditorHandlers[1]
      U == UnbindRegistryTargets(L1, eventRoot[c], c,
                                 RegistryNames(customEventRootDelegates))
  IN
  /\ ~removed[e]
  /\ removed' = [removed EXCEPT ![e] = TRUE]
  /\ delegates' = [delegates EXCEPT ![e] = AbsentSet]
  /\ wanted' = [wanted EXCEPT ![e] = {}]
  /\ editors' = list
  /\ activeEditor' = active
  /\ IF teardown
       THEN /\ listeners' = U.listeners
            /\ eventRoot' = [eventRoot EXCEPT ![c] = U.cache]
            /\ customEventRootDelegates' = AbsentMap
       ELSE /\ listeners' = L1
            /\ UNCHANGED <<eventRoot, customEventRootDelegates>>
  /\ outcome' = Idle
  /\ UNCHANGED <<config, initialized, pending, removeEditorHandlers>>

\* A native event of that name is fired at target and bubbles.
FireNative(target, name) ==
  /\ outcome' = [kind |-> "dispatch", target |-> target, name |-> name,
                 calls |-> Dispatch(target, name)]
  /\ UNCHANGED <<config, initialized, removed, eventRoot, delegates, pending,
                 customEventRootDelegates, removeEditorHandlers, editors,
                 activeEditor, listeners, wanted>>

\* The listeners of the native event, or the toggle call that was ignored,
\* have returned to the event loop.
DispatchDone ==
  /\ outcome.kind \in {"dispatch", "ignored"}
  /\ outcome' = Idle
  /\ UNCHANGED <<config, initialized, removed, eventRoot, delegates, pending,
                 customEventRootDelegates, removeEditorHandlers, editors,
                 activeEditor, listeners, wanted>>

\* Native dispatch is synchronous: no operation starts inside it.
Dispatching ==
  outcome.kind \in {"dispatch", "ignored"}

EventTargets ==
  {BodyOf(e) : e \in Editors} \cup {InnerOf(e) : e \in Editors}

Next ==
  \/ \E e \in Editors :
       ~Dispatching /\ bindPendingEventDelegates(e) /\ UNCHANGED <<picker, scan, toggled>>
  \/ \E e \in Editors, name \in ToggleNames, state \in BOOLEAN :
       ~Dispatching /\ toggleNativeEvent(e, name, state) /\ UNCHANGED <<picker, scan, toggled>>
  \/ \E e \in Editors : ~Dispatching /\ UnbindAll(e) /\ UNCHANGED <<picker, scan, toggled>>
  \/ \E e \in Editors :
       ~Dispatching /\ InitContentBody(e) /\ UNCHANGED <<picker, scan, toggled>>
  \/ \E e \in Editors : ~Dispatching /\ Remove(e) /\ UNCHANGED <<picker, scan, toggled>>
  \/ \E target \in EventTargets, name \in NativeNames :
       ~Dispatching /\ FireNative(target, name) /\ UNCHANGED <<picker, scan, toggled>>
  \/ DispatchDone /\ UNCHANGED <<picker, scan, toggled>>

Spec ==
  Init /\ [][Next]_vars

SpecGating ==
  InitGating /\ [][Next]_vars

\* Binding only: bindPendingEventDelegates, toggleNativeEvent(name, true),
\* initialisation, and native events; nothing is unbound.
NextBind ==
  \/ \E e \in Editors :
       ~Dispatching /\ bindPendingEventDelegates(e) /\ UNCHANGED <<picker, scan, toggled>>
  \/ \E e \in Editors, name \in ToggleNames :
       ~Dispatching /\ toggleNativeEvent(e, name, TRUE) /\ UNCHANGED <<picker, scan, toggled>>
  \/ \E e \in Editors :
       ~Dispatching /\ InitContentBody(e) /\ UNCHANGED <<picker, scan, toggled>>
  \/ \E target \in EventTargets, name \in NativeNames :
       ~Dispatching /\ FireNative(target, name) /\ UNCHANGED <<picker, scan, toggled>>
  \/ DispatchDone /\ UNCHANGED <<picker, scan, toggled>>

SpecBind ==
  Init /\ [][NextBind]_vars

\* getEventTarget on its own: every setting of two editors, every name.
InitTarget ==
  /\ inline \in [Editors -> BOOLEAN]
  /\ eventRootSetting \in [Editors -> Roots \cup {NoRoot}]
  /\ container = [e \in Editors |->
                    IF inline[e] THEN eventRootSetting[e] ELSE NoRoot]
  /\ hidden = [e \in Editors |-> FALSE]
  /\ readonly = [e \in Editors |-> FALSE]
  /\ initialized = [e \in Editors |-> TRUE]
  /\ removed = [e \in Editors |-> FALSE]
  /\ eventRoot = [e \in Editors |-> NoNode]
  /\ delegates = [e \in Editors |-> AbsentSet]
  /\ pending = [e \in Editors |-> AbsentList]
  /\ customEventRootDelegates = AbsentMap
  /\ removeEditorHandlers = <<>>
  /\ editors = <<1, 2>>
  /\ activeEditor = 2
  /\ listeners = <<>>
  /\ wanted = [e \in Editors |-> {}]
  /\ outcome = Idle
  /\ picker = PickerInit
  /\ scan = NoScan
  /\ toggled = [e \in Editors |-> {}]

ResolveEventTarget(e, eventName) ==
  /\ outcome' = [kind |-> "target", ed |-> e, name |-> eventName,
                 cached |-> eventRoot[e],
                 node |-> getEventTarget(eventRoot[e], e, eventName)]
  /\ eventRoot' = [eventRoot EXCEPT ![e] = eventRootAfter(@, e, eventName)]
  /\ UNCHANGED <<config, initialized, removed, delegates, pending,
                 customEventRootDelegates, removeEditorHandlers, editors,
                 activeEditor, listeners, wanted>>

NextTarget ==
  \E e \in Editors, eventName \in TargetNames :
    ResolveEventTarget(e, eventName) /\ UNCHANGED <<picker, scan, toggled>>

SpecTarget ==
  InitTarget /\ [][NextTarget]_vars

\* ------------------------------------------------- the event dispatcher

\* The dispatcher adds the first listener of a name: EventDispatcher calls
\* toggleEvent(name, true), which is toggleNativeEvent(name, true).
FirstListenerAdded(e, name) ==
  /\ name \notin toggled[e]
  /\ toggleNativeEvent(e, name, TRUE)
  /\ toggled' = [toggled EXCEPT ![e] = @ \cup {name}]
  /\ UNCHANGED <<picker, scan>>

\* The dispatcher removes the last listener of a name: toggleEvent(name,
\* false), which is toggleNativeEvent(name, false).
LastListenerRemoved(e, name) ==
  /\ name \in toggled[e]
  /\ toggleNativeEvent(e, name, FALSE)
  /\ toggled' = [toggled EXCEPT ![e] = @ \ {name}]
  /\ UNCHANGED <<picker, scan>>

\* Pages of editors without a custom event root.
InitToggle ==
  InitWith({<<IframeEditor, InlineEditor>>, <<InlineEditor, IframeEditor>>,
            <<InlineEditor, InlineEditor>>, <<IframeEditor, IframeEditor>>},
           {<<Listening, Listening>>})

\* The dispatcher of each editor toggles names on and off in turn, before
\* and after the editor is initialised, and pending names are flushed.
NextToggle ==
  \/ \E e \in Editors, name \in NativeNames : FirstListenerAdded(e, name)
  \/ \E e \in Editors, name \in NativeNames : LastListenerRemoved(e, name)
  \/ \E e \in Editors :
       InitContentBody(e) /\ UNCHANGED <<picker, scan, toggled>>
  \/ \E e \in Editors :
       bindPendingEventDelegates(e) /\ UNCHANGED <<picker, scan, toggled>>

SpecToggle ==
  InitToggle /\ [][NextToggle]_vars

\* ------------------------------------------- the shared delegate, stepwise

\* while (--i): the loop that never reaches index 0 (here index 1).
scanOrderStoppingEarly(n) ==
  [k \in 1..(IF n = 0 THEN 0 ELSE n - 1) |-> n - k + 1]

\* let i = editors.length; while (i--): the indices of editors that the
\* loop visits, in the order it visits them (sequences start at 1).
scanOrder(n) ==
  [k \in 1..n |-> n - k + 1]

\* editorManager.get() without an argument: a copy of the list of editors.
editorManagerGet ==
  editors

\* A native event of that name reaches a shared delegate: the delegate
\* takes editorManager.get() and its length.
ScanBegin(target, name) ==
  /\ scan.phase = "none"
  /\ \E i \in DOMAIN ListenersRun(target, name) :
       ListenersRun(target, name)[i].kind = "shared"
  /\ scan' = [phase |-> "running", target |-> target, name |-> name,
              list |-> editorManagerGet, k |-> 0, visited |-> <<>>,
              fired |-> <<>>,
              removedDuring |-> {}]
  /\ UNCHANGED <<inline, eventRootSetting, container, hidden, readonly,
                 initialized, removed, eventRoot, delegates, pending,
                 customEventRootDelegates, removeEditorHandlers, editors,
                 activeEditor, listeners, wanted, outcome, picker, toggled>>

\* One turn of the loop: the body of editors[i] is tested against the
\* target (a removed editor has no body any more) and fireEvent is called
\* when it holds the target.  The handlers that editor.fire runs are the
\* page's: they remove editor r (any live editor, or none when r is 0).
ScanStep(r) ==
  LET order == scanOrder(Len(scan.list))
      e == scan.list[order[scan.k + 1]]
      hit == ~removed[e] /\ isChildOf(scan.target, getBody(e))
      calls == IF hit THEN fireEvent(e) ELSE <<>>
      handlersRun == calls # <<>> /\ calls[1].call = "fire"
  IN
  /\ scan.phase = "running"
  /\ scan.k < Len(order)
  /\ IF r # 0
       THEN /\ handlersRun
            /\ Remove(r)
       ELSE UNCHANGED <<inline, eventRootSetting, container, hidden,
                        readonly, initialized, removed, eventRoot, delegates,
                        pending, customEventRootDelegates,
                        removeEditorHandlers, editors, activeEditor,
                        listeners, wanted, outcome>>
  /\ scan' = [scan EXCEPT
       !.k = @ + 1,
       !.visited = Append(@, e),
       !.fired = @ \o calls,
       !.removedDuring = IF r # 0 THEN @ \cup {r} ELSE @]
  /\ UNCHANGED <<picker, toggled>>

\* The loop ends: i reached 0.
ScanEnd ==
  /\ scan.phase = "running"
  /\ scan.k = Len(scanOrder(Len(scan.list)))
  /\ scan' = [scan EXCEPT !.phase = "done"]
  /\ UNCHANGED <<inline, eventRootSetting, container, hidden, readonly,
                 initialized, removed, eventRoot, delegates, pending,
                 customEventRootDelegates, removeEditorHandlers, editors,
                 activeEditor, listeners, wanted, outcome, picker, toggled>>

\* The delegate has returned to the event loop.
ScanReturn ==
  /\ scan.phase = "done"
  /\ scan' = NoScan
  /\ UNCHANGED <<inline, eventRootSetting, container, hidden, readonly,
                 initialized, removed, eventRoot, delegates, pending,
                 customEventRootDelegates, removeEditorHandlers, editors,
                 activeEditor, listeners, wanted, outcome, picker, toggled>>

\* Pages with a custom event root: two editors in one root, two editors in
\* two roots, and an editor without the setting inside another's root.
InitScan ==
  InitWith({<<InlineInRoot(1), InlineInRoot(1)>>,
            <<InlineInRoot(1), InlineInRoot(2)>>,
            <<InlineInRoot(1), InlineUnderForeignRoot(1)>>},
           {<<Listening, Listening>>})

\* Editors are initialised and bind names; native events reach the shared
\* delegates, whose loop runs turn by turn while handlers remove editors.
NextScan ==
  \/ \E e \in Editors :
       scan.phase = "none" /\ InitContentBody(e) /\ UNCHANGED <<picker, scan, toggled>>
  \/ \E e \in Editors, name \in NativeNames :
       /\ scan.phase = "none"
       /\ toggleNativeEvent(e, name, TRUE)
       /\ UNCHANGED <<picker, scan, toggled>>
  \/ \E target \in EventTargets, name \in NativeNames :
       ScanBegin(target, name)
  \/ \E r \in Editors \cup {0} : ScanStep(r)
  \/ ScanEnd
  \/ ScanReturn

SpecScan ==
  InitScan /\ [][NextScan]_vars

\* ----------------------------------------------------------- ImagePicker

\* Everything but the picker.
observable ==
  <<inline, eventRootSetting, container, hidden, readonly, initialized,
    removed, eventRoot, delegates, pending, customEventRootDelegates,
    removeEditorHandlers, editors, activeEditor, listeners, wanted,
    outcome, scan, toggled>>

\* extractBlob taking the last file of the list.
extractBlobLast(event) ==
  LET files == IF event.files.exists THEN event.files
               ELSE event.dataTransfer.files
  IN
  IF ~event.files.exists /\ ~event.dataTransfer.exists
    THEN [kind |-> "threw", blob |-> 0]
  ELSE IF ~files.exists THEN [kind |-> "threw", blob |-> 0]
  ELSE IF files.list = <<>> THEN [kind |-> "none", blob |-> 0]
  ELSE [kind |-> "some", blob |-> files.list[Len(files.list)]]

\* extractBlob: target.files || dataTransfer.files, then Option.from(files[0]).
\* A file list is an object, so an empty one is still taken; reading .files
\* of an undefined dataTransfer, or [0] of an undefined list, throws.
extractBlob(event) ==
  LET files == IF event.files.exists THEN event.files
               ELSE event.dataTransfer.files
  IN
  IF ~event.files.exists /\ ~event.dataTransfer.exists
    THEN [kind |-> "threw", blob |-> 0]
  ELSE IF ~files.exists THEN [kind |-> "threw", blob |-> 0]
  ELSE IF files.list = <<>> THEN [kind |-> "none", blob |-> 0]
  ELSE [kind |-> "some", blob |-> Head(files.list)]

\* One call made on the editor or its collaborators for a pick; gone tells
\* whether the editor was removed when the call was made.
Call(op, pk) ==
  [op |-> op, pick |-> pk.pick, blob |-> pk.blob,
   gone |-> removed[PickerEditor]]

\* The function handed to then() inserting after the transaction closed.
onFulfilledInsertOutside(pk) ==
  <<Call("transact", pk), Call("create", pk), Call("add", pk),
    Call("createHTML", pk), Call("end", pk), Call("insertContent", pk)>>

\* The calls of the function handed to then(): undoManager.transact opens
\* the transaction, its callback creates the cache entry, adds it, creates
\* the img HTML and inserts it, and the transaction closes.
onFulfilled(pk) ==
  <<Call("transact", pk), Call("create", pk), Call("add", pk),
    Call("createHTML", pk), Call("insertContent", pk), Call("end", pk)>>

\* A rejection handler that registers the blob all the same.
onRejectedCaches(pk) ==
  <<Call("create", pk), Call("add", pk)>>

\* then() is given no rejection handler: a failed conversion calls nothing.
onRejected(pk) ==
  <<>>

\* addImage(editor, blob): the conversion of the blob is started.
addImage(P, blob) ==
  [P EXCEPT !.converting = @ \cup {[pick |-> P.picks + 1, blob |-> blob]}]

\* The change handler of the file input:
\* extractBlob(simulatedEvent).each(blob => addImage(editor, blob)).
Change(event) ==
  LET x == extractBlob(event)
      P == [picker EXCEPT !.event = event, !.extracted = x]
      Q == IF x.kind = "some" THEN addImage(P, x.blob) ELSE P
  IN
  /\ picker.picks < MaxPicks
  /\ picker' = [Q EXCEPT !.picks = @ + 1]
  /\ UNCHANGED observable

\* blobToBase64 resolves for one of the conversions under way and the
\* function handed to then() runs.  undoManager.transact and insertContent
\* are not written for a removed editor (remove() destroys the selection
\* they use): on a removed editor the call of transact either throws or
\* runs like on a live one.
Resolve(pk) ==
  /\ pk \in picker.converting
  /\ \E throws \in (IF removed[PickerEditor] THEN BOOLEAN ELSE {FALSE}) :
       picker' = [picker EXCEPT
         !.converting = @ \ {pk},
         !.completed = @ \cup {pk.pick},
         !.raised = IF throws THEN @ \cup {pk.pick} ELSE @,
         !.log = @ \o (IF throws THEN <<Call("transact", pk)>>
                       ELSE onFulfilled(pk))]
  /\ UNCHANGED observable

\* blobToBase64 rejects for one of the conversions under way.
Reject(pk) ==
  /\ pk \in picker.converting
  /\ picker' = [picker EXCEPT
       !.converting = @ \ {pk},
       !.failed = @ \cup {pk.pick},
       !.log = @ \o onRejected(pk)]
  /\ UNCHANGED observable

\* Every pick that can be under conversion.
Picks ==
  [pick : 1..MaxPicks, blob : Files]

InitPicker ==
  InitWith({<<IframeEditor, InlineEditor>>}, {<<Listening, Listening>>})

\* The picker of editor 1: files are picked, conversions resolve or reject
\* in any order, and the editor can be removed at any moment.
NextPicker ==
  \/ \E event \in ChangeEvents : Change(event)
  \/ \E pk \in Picks : Resolve(pk)
  \/ \E pk \in Picks : Reject(pk)
  \/ Remove(PickerEditor) /\ UNCHANGED <<picker, scan, toggled>>

SpecPicker ==
  InitPicker /\ [][NextPicker]_vars

\* extractBlob on its own, on every shape of event.
ExtractBlob(event) ==
  /\ picker' = [picker EXCEPT !.event = event,
                              !.extracted = extractBlob(event)]
  /\ UNCHANGED observable

NextExtract ==
  \E event \in RawEvents : ExtractBlob(event)

SpecExtract ==
  InitPicker /\ [][NextExtract]_vars

\* ================================================================ claims

\* The native listeners of that name on that node that serve editor e: its
\* private delegates, and the shared delegates when e has a custom event
\* root.
ListenerCount(e, node, name) ==
  Cardinality({i \in DOMAIN listeners :
    /\ listeners[i].node = node
    /\ listeners[i].name = name
    /\ \/ listeners[i].kind = "private" /\ listeners[i].ed = e
       \/ listeners[i].kind = "shared" /\ eventRootSetting[e] # NoRoot})

\* The node getEventTarget resolves now for that editor and name.
Target(e, name) ==
  getEventTarget(eventRoot[e], e, name)

Occurrences(list, x) ==
  Cardinality({i \in DOMAIN list : list[i] = x})

CallCount(calls, e, call) ==
  Cardinality({i \in DOMAIN calls : calls[i].ed = e /\ calls[i].call = call})

Live(e) ==
  \E i \in DOMAIN editors : editors[i] = e

\* The editor's body lies under the node its events of that name are bound
\* on, so that a listener there sees the events of the body, and a custom
\* event root is used with an inline editor, as the setting is documented.
\* The claims that fail are stated for these editors.
BodyUnderTarget(e, name) ==
  /\ isChildOf(getBody(e), Target(e, name))
  /\ eventRootSetting[e] # NoRoot => inline[e]

\* ---------------------------------------------------------------- C1

\* C1: under binding operations alone (SpecBind), an editor that was
\* initialised with a name queued twice had bindEventDelegate called twice
\* for that name; the claim is that exactly one native listener for the name
\* is then installed on the editor's event target.
C1_BoundTwiceExactlyOneListener ==
  \A e \in Editors, n \in NativeNames :
    (/\ BodyUnderTarget(e, n)
     /\ initialized[e]
     /\ Occurrences(pending[e].list, n) >= 2)
      => ListenerCount(e, Target(e, n), n) = 1

\* ---------------------------------------------------------------- C2

SharesRoot(a, b) ==
  /\ a # b
  /\ eventRootSetting[a] # NoRoot
  /\ eventRootSetting[a] = eventRootSetting[b]

\* C2: when editors a and b share a custom event root, a native event whose
\* target is a's body or inside it makes calls on a only, never on b.
C2_DispatchOnlyToTargetEditor ==
  \A a, b \in Editors :
    (/\ outcome.kind = "dispatch"
     /\ SharesRoot(a, b)
     /\ isChildOf(outcome.target, getBody(a)))
      => \A i \in DOMAIN outcome.calls : outcome.calls[i].ed = a

\* Both editors of a shared root bound the name, one shared listener is
\* installed, and an event inside editor 1's descendant reached editor 1.
C2_Witness ==
  /\ outcome.kind = "dispatch"
  /\ SharesRoot(1, 2)
  /\ Live(1) /\ Live(2)
  /\ outcome.name \in wanted[1] \cap wanted[2]
  /\ ListenerCount(2, Target(2, outcome.name), outcome.name) = 1
  /\ outcome.target = InnerOf(1)
  /\ outcome.calls = <<[ed |-> 1, call |-> "fire"]>>

\* ---------------------------------------------------------------- C3

\* C3: an initialised editor bound every name of its pending list when it
\* was initialised; when its delegate mapping is absent, unbindAllNativeEvents
\* has run since and nothing was bound for it afterwards.  The claim is that
\* no native event of such a name makes a call on that editor.
C3_NoDispatchAfterUnbindAll ==
  \A e \in Editors :
    (/\ outcome.kind = "dispatch"
     /\ initialized[e]
     /\ ~delegates[e].exists
     /\ Occurrences(pending[e].list, outcome.name) > 0)
      => CallCount(outcome.calls, e, "fire") = 0

\* ---------------------------------------------------------------- C4

\* How many of the listeners that ran delivered the event to editor e: its
\* private delegates, and the shared delegates when the target is in its body.
Delivered(e, target, name) ==
  LET run == ListenersRun(target, name)
  IN Cardinality({i \in DOMAIN run :
       \/ run[i].kind = "private" /\ run[i].ed = e
       \/ run[i].kind = "shared" /\ Live(e)
            /\ isChildOf(target, getBody(e))})

\* C4: each delivery of a native event to an editor becomes one editor.fire
\* when the editor is neither hidden nor read-only, one
\* preventReadOnlyEvents when it is read-only, and nothing when it is hidden
\* and not read-only; never both calls for one delivery.
C4_HiddenReadonlyGating ==
  outcome.kind = "dispatch" =>
    \A e \in Editors :
      LET d == Delivered(e, outcome.target, outcome.name)
      IN /\ CallCount(outcome.calls, e, "fire") =
              (IF ~hidden[e] /\ ~readonly[e] THEN d ELSE 0)
         /\ CallCount(outcome.calls, e, "prevent") =
              (IF readonly[e] THEN d ELSE 0)

\* A read-only editor was delivered an event and only the suppression hook
\* ran, while a hidden editor in the same page holds a delegate.
C4_Witness ==
  /\ outcome.kind = "dispatch"
  /\ \E e \in Editors :
       /\ readonly[e]
       /\ Delivered(e, outcome.target, outcome.name) = 1
       /\ outcome.calls = <<[ed |-> e, call |-> "prevent"]>>
  /\ \E h \in Editors : hidden[h] /\ ~readonly[h] /\ wanted[h] # {}

\* ---------------------------------------------------------------- C5

\* What binding, queueing and unbinding write.
BindingVars ==
  <<listeners, pending, delegates, customEventRootDelegates,
    removeEditorHandlers, eventRoot, wanted>>

\* C5: a toggleNativeEvent call with the name focus or blur, with either
\* flag and on any editor, returns at once: it installs no listener, queues
\* nothing and unbinds nothing.
C5_FocusBlurNeverBound ==
  [][\A e \in Editors, name \in {"focus", "blur"}, state \in BOOLEAN :
       toggleNativeEvent(e, name, state)
         => (outcome' = Ignored /\ UNCHANGED BindingVars)]_vars

\* A focus / blur toggle returned in a page that has listeners installed, a
\* name queued on an editor that is not initialised, and a removed editor.
C5_Witness ==
  /\ outcome = Ignored
  /\ listeners # <<>>
  /\ \E e \in Editors : ~initialized[e] /\ pending[e].exists
  /\ \E e \in Editors : removed[e]

\* ---------------------------------------------------------------- C6

SeqRange(list) ==
  {list[i] : i \in DOMAIN list}

\* C6: toggleNativeEvent(name, true) on an editor that is not initialised
\* installs nothing and appends the name to the pending list; a
\* bindPendingEventDelegates call on a non-removed editor leaves exactly one
\* native listener on the editor's event target for every queued name.
C6_PendingQueuedThenBoundOnce ==
  [][\A e \in Editors :
       /\ \A n \in NativeNames :
            (~initialized[e] /\ toggleNativeEvent(e, n, TRUE))
              => /\ listeners' = listeners
                 /\ pending'[e].list = Append(pending[e].list, n)
       /\ (~removed[e] /\ bindPendingEventDelegates(e))
            => \A n \in SeqRange(pending[e].list) :
                 BodyUnderTarget(e, n)
                   => ListenerCount(e, Target(e, n), n)' = 1]_vars

\* ---------------------------------------------------------------- C7

\* C7: under binding operations alone, an editor with a custom event root
\* that bound a name has a native listener for it on its resolved event
\* target, and an event of that name in its body is dispatched to it (every
\* editor of SpecBind is neither hidden nor read-only).
C7_CustomRootListenerInstalled ==
  \A e \in Editors : \A n \in wanted[e] :
    (eventRootSetting[e] # NoRoot /\ BodyUnderTarget(e, n))
      => /\ ListenerCount(e, Target(e, n), n) >= 1
         /\ (/\ outcome.kind = "dispatch"
             /\ outcome.name = n
             /\ isChildOf(outcome.target, getBody(e)))
              => CallCount(outcome.calls, e, "fire") >= 1

\* ---------------------------------------------------------------- C8

\* A step that calls bindEventDelegate for editor e.
BindCall(e) ==
  \/ bindPendingEventDelegates(e) /\ pending[e].list # <<>>
  \/ \E n \in NativeNames : initialized[e] /\ toggleNativeEvent(e, n, TRUE)

\* C8 as claimed: a bindEventDelegate call on a removed editor installs no
\* listener, adds nothing to the registry, does not raise, and leaves
\* editor.delegates as it was.
C8_BindOnRemovedNoEffect ==
  [][\A e \in Editors :
       (removed[e] /\ BindCall(e))
         => /\ listeners' = listeners
            /\ customEventRootDelegates' = customEventRootDelegates
            /\ outcome' # Threw
            /\ delegates'[e] = delegates[e]]_vars

\* C8 as amended: a bindEventDelegate call on a removed editor installs no
\* listener, adds nothing to the registry, does not raise, and adds no entry
\* to editor.delegates (an absent mapping becomes an empty one).
C8_BindOnRemovedAddsNothing ==
  [][\A e \in Editors :
       (removed[e] /\ BindCall(e))
         => /\ listeners' = listeners
            /\ customEventRootDelegates' = customEventRootDelegates
            /\ outcome' # Threw
            /\ delegates'[e].names = delegates[e].names
            /\ delegates'[e].exists]_vars

\* bindEventDelegate ran on a removed editor (removal deletes the mapping,
\* only that call recreates it) while the page holds listeners.
C8_Witness ==
  \E e \in Editors :
    /\ removed[e]
    /\ delegates[e].exists
    /\ delegates[e].names = {}
    /\ listeners # <<>>

\* ---------------------------------------------------------------- C9

\* C9: unbindAllNativeEvents on an editor that has nothing bound (no name
\* bound since its last unbind, delegate mapping absent or empty) removes no
\* listener, leaves the registry alone, ends with the mapping absent, and
\* does not raise.
C9_UnbindAllWithoutDelegatesNoOp ==
  [][\A e \in Editors :
       (wanted[e] = {} /\ delegates[e].names = {} /\ UnbindAll(e))
         => /\ listeners' = listeners
            /\ customEventRootDelegates' = customEventRootDelegates
            /\ ~delegates'[e].exists
            /\ outcome' # Threw]_vars

\* unbindAllNativeEvents has run on a live, initialised editor that had
\* bound its pending names: nothing is bound for it now, its mapping is
\* absent, and the other editor's listeners are in place.
C9_Witness ==
  \E e \in Editors :
    /\ initialized[e] /\ ~removed[e]
    /\ pending[e].list # <<>>
    /\ ~delegates[e].exists
    /\ wanted[e] = {}
    /\ listeners # <<>>

\* --------------------------------------------------------------- C10

\* Pointer, touch and drag event names among TargetNames.
PointerTouchDragFamily ==
  {"click", "dblclick", "mousedown", "touchstart", "contextmenu", "drop",
   "dragover", "dragend", "dragstart", "pointerdown"}

\* The names among TargetNames that the pattern of getEventTarget matches:
\* names that start with mouse or contain touch, click, contextmenu, drop,
\* dragover or dragend.
DocElemNames ==
  {"click", "dblclick", "mousedown", "touchstart", "contextmenu", "drop",
   "dragover", "dragend"}

\* The priority order of the claim, with the given family of names bound on
\* the document element.
ClaimedTarget(e, name, family) ==
  IF name = "selectionchange" THEN getDoc(e)
  ELSE IF ~inline[e] /\ name \in family THEN IframeDocElem(e)
  ELSE IF eventRootSetting[e] # NoRoot THEN RootElm(eventRootSetting[e])
  ELSE getBody(e)

\* Resolution is stable: what was cached is what the setting selects, a
\* resolution through the cache returns the cached element and leaves it
\* cached, and every name resolves now as it did before anything was cached.
StableResolution ==
  /\ \A e \in Editors :
       /\ eventRoot[e] # NoNode => eventRoot[e] = RootElm(eventRootSetting[e])
       /\ \A n \in TargetNames :
            getEventTarget(eventRoot[e], e, n) = getEventTarget(NoNode, e, n)
  /\ (outcome.kind = "target" /\ outcome.node[1] = "root")
       => /\ eventRoot[outcome.ed] = outcome.node
          /\ outcome.cached \in {NoNode, outcome.node}

\* C10 as claimed: the document for selectionchange; else the document
\* element for every pointer, touch or drag event name when not inline; else
\* the cached custom root; else the body; and resolution is stable.
C10_TargetPriorityFamily ==
  /\ outcome.kind = "target"
       => outcome.node =
            ClaimedTarget(outcome.ed, outcome.name, PointerTouchDragFamily)
  /\ StableResolution

\* C10 as amended: the document element is the target, when not inline, of
\* the names that the pattern /^mouse|touch|click|contextmenu|drop|dragover|
\* dragend/ matches; dragstart and pointerdown resolve like any other name.
C10_TargetPriorityPattern ==
  /\ outcome.kind = "target"
       => outcome.node = ClaimedTarget(outcome.ed, outcome.name, DocElemNames)
  /\ StableResolution

\* An iframe editor with a custom event root resolved a mouse name to its
\* document element after the root had been cached by an earlier resolution.
C10_Witness ==
  /\ outcome.kind = "target"
  /\ outcome.name = "mousedown"
  /\ ~inline[outcome.ed]
  /\ eventRootSetting[outcome.ed] # NoRoot
  /\ outcome.cached = RootElm(eventRootSetting[outcome.ed])
  /\ outcome.node = IframeDocElem(outcome.ed)

\* --------------------------------------------------------------- C11

\* The operations called for pick p, in the order they were called.
OpsOf(p) ==
  LET calls == SelectSeq(picker.log, LAMBDA c : c.pick = p)
  IN [i \in DOMAIN calls |-> calls[i].op]

\* The calls of one insertion: the transaction opens, the cache entry is
\* created and added, the img is built and inserted, the transaction closes.
OneInsertion ==
  <<"transact", "create", "add", "createHTML", "insertContent", "end">>

\* The calls for pick p are next to each other in the log: no call for
\* another pick lies inside p's transaction.
Contiguous(p) ==
  \A i, j, k \in DOMAIN picker.log :
    (i < j /\ j < k /\ picker.log[i].pick = p /\ picker.log[k].pick = p)
      => picker.log[j].pick = p

\* Picks that carried a file: under conversion, resolved or rejected.
PicksUnderWay ==
  {pk.pick : pk \in picker.converting}

ListRead(event) ==
  IF event.files.exists THEN event.files
  ELSE IF event.dataTransfer.exists THEN event.dataTransfer.files
  ELSE AbsentList

\* What the claim says of an event whose list is list.
FirstOrNothing(x, list) ==
  IF list = <<>> THEN x.kind = "none"
  ELSE x = [kind |-> "some", blob |-> Head(list)]

\* C12 as claimed: for every shape of event extractBlob returns the first
\* file of target.files, or of the drag payload's list when the event has
\* no target.files, returns nothing when there is no file, and never raises.
C12_ExtractFirstNeverRaises ==
  picker.extracted.kind # "idle" =>
    /\ picker.extracted.kind # "threw"
    /\ FirstOrNothing(picker.extracted, ListRead(picker.event).list)

\* C12 as amended: the same whenever the event has a target.files list
\* (empty or not) or a drag payload with a file list; extractBlob raises
\* when the event has neither.
C12_ExtractFirstWhenListPresent ==
  picker.extracted.kind # "idle" =>
    IF ListRead(picker.event).exists
      THEN FirstOrNothing(picker.extracted, ListRead(picker.event).list)
      ELSE picker.extracted.kind = "threw"

\* The event had no target.files and its drag payload held two different
\* files: the first one was returned.
C12_Witness ==
  /\ ~picker.event.files.exists
  /\ picker.event.dataTransfer.exists
  /\ picker.event.dataTransfer.files.list = <<2, 1>>
  /\ picker.extracted = [kind |-> "some", blob |-> 2]

\* --------------------------------------------------------------- C16

\* C16: when the editor was removed while a conversion was under way, the
\* completion of the conversion raises nothing, creates no cache entry in
\* the removed editor's cache and inserts no content into it.
C16_NoActionOnRemovedEditor ==
  /\ picker.raised = {}
  /\ \A i \in DOMAIN picker.log :
       picker.log[i].gone =>
         picker.log[i].op \notin {"create", "add", "insertContent"}

\* --------------------------------------------------------------- C17

\* C17: a pick whose conversion failed made no call at all: no transaction,
\* no cache entry created or added, no content inserted; so every cache
\* entry in the log belongs to a pick whose conversion completed.
C17_FailedConversionNoPartialState ==
  /\ \A p \in picker.failed : OpsOf(p) = <<>>
  /\ \A i \in DOMAIN picker.log :
       picker.log[i].op \in {"create", "add"}
         => picker.log[i].pick \in picker.completed

\* One conversion failed after another pick had been inserted, and a third
\* pick is still being converted.
C17_Witness ==
  /\ picker.failed # {}
  /\ picker.completed # {}
  /\ picker.converting # {}
  /\ Len(picker.log) = Len(OneInsertion)

\* --------------------------------------------------------------- C13

\* The shared listeners, installed through the registry, that are bound.
SharedListeners ==
  {i \in DOMAIN listeners : listeners[i].kind = "shared"}

\* A step that calls bindEventDelegate(e, n) on a live editor with a custom
\* event root.
CustomRootBind(e, n) ==
  /\ eventRootSetting[e] # NoRoot
  /\ ~removed[e]
  /\ \/ initialized[e] /\ toggleNativeEvent(e, n, TRUE)
     \/ bindPendingEventDelegates(e) /\ n \in SeqRange(pending[e].list)
     \/ InitContentBody(e) /\ n \in SeqRange(pending[e].list)

\* C13: the registry exists only after a bind by an editor with a custom
\* event root, and shared listeners exist only through it; the removal of
\* the last active editor leaves the registry null and no shared listener
\* bound on any node; and a bind by an editor with a custom event root
\* (re)creates the registry.
C13_RegistryLifecycle ==
  [][/\ customEventRootDelegates'.exists
          => /\ removeEditorHandlers' # <<>>
             /\ \A i \in DOMAIN removeEditorHandlers' :
                  eventRootSetting[removeEditorHandlers'[i]] # NoRoot
     /\ ~customEventRootDelegates'.exists
          => (removeEditorHandlers' = <<>> => SharedListeners' = {})
     /\ \A e \in Editors :
          (Remove(e) /\ activeEditor' = 0)
            => /\ ~customEventRootDelegates'.exists
               /\ SharedListeners' = {}
     /\ \A e \in Editors, n \in NativeNames :
          CustomRootBind(e, n) => customEventRootDelegates'.exists]_vars

\* --------------------------------------------------------------- C14

RECURSIVE Reverse(_)
Reverse(list) ==
  IF list = <<>> THEN <<>> ELSE Append(Reverse(Tail(list)), Head(list))

C14_WitnessCurrentRemoved ==
  /\ scan.phase = "done"
  /\ scan.removedDuring = {2}
  /\ scan.fired = <<[ed |-> 2, call |-> "fire"]>>
  /\ Live(1)
  /\ scan.visited = <<2, 1>>

\* --------------------------------------------------------------- C18

\* C18: for an editor without a custom event root whose dispatcher toggles
\* each name on and off in turn, a native delegate for a name is installed
\* only when the most recent toggle of the name was on.
C18_DelegateOnlyWhileToggledOn ==
  \A e \in Editors, n \in NativeNames :
    (eventRootSetting[e] = NoRoot /\ ListenerCount(e, Target(e, n), n) >= 1)
      => n \in toggled[e]

\* --------------------------------------------------------------- C15

\* A shared listener of that name is bound somewhere.
SharedListenerFor(L, n) ==
  \E i \in DOMAIN L : L[i].kind = "shared" /\ L[i].name = n

\* C15: when editors a and b share a custom event root and both bound name
\* n, toggleNativeEvent(n, false) on a, or unbindAllNativeEvents on a,
\* leaves the shared listener of n that serves b where it is; and after
\* every step a name that the registry holds, and that a live editor whose
\* body lies under its custom root still wants, has a shared listener bound.
C15_SharedDeregistrationIndependent ==
  [][/\ \A a, b \in Editors, n \in NativeNames :
          (/\ SharesRoot(a, b)
           /\ Live(a) /\ Live(b)
           /\ n \in wanted[a] \cap wanted[b]
           /\ BodyUnderTarget(b, n)
           /\ ListenerCount(b, Target(b, n), n) = 1
           /\ \/ initialized[a] /\ toggleNativeEvent(a, n, FALSE)
              \/ UnbindAll(a))
            => ListenerCount(b, Target(b, n), n)' = 1
     /\ \A b \in Editors, n \in NativeNames :
          (/\ n \in RegistryNames(customEventRootDelegates')
           /\ eventRootSetting[b] # NoRoot
           /\ BodyUnderTarget(b, n)
           /\ n \in wanted'[b])
            => SharedListenerFor(listeners', n)]_vars

\* --------------------------------------------------------------- C19

\* C19: toggleNativeEvent(name, false) on an initialised editor does not
\* raise, whatever was bound or unbound before.
C19_ToggleOffNeverRaises ==
  [][\A e \in Editors, n \in NativeNames :
       (initialized[e] /\ toggleNativeEvent(e, n, FALSE))
         => outcome' # Threw]_vars

\* --------------------------------------------------------------- C20

\* C20: one native event makes at most one editor.fire call on any editor.
C20_FiredAtMostOncePerEvent ==
  outcome.kind = "dispatch" =>
    \A e \in Editors : CallCount(outcome.calls, e, "fire") <= 1

====
